---- MODULE Spec2Model ----
(***************************************************************************)
(* RAG knowledge base manager (rag_manager.py / save_to_chroma.py):        *)
(* the text splitter, the change detector, the ingestion pipeline and the  *)
(* collection lifecycle of VectorDBManager, over a ChromaDB-like store.    *)
(*                                                                         *)
(* Texts are sequences of one-character strings.  Positions (start, end,   *)
(* best_split) are Python's 0-based offsets; Slice(t, a, b) is t[a:b].     *)
(***************************************************************************)
EXTENDS Integers, Sequences, FiniteSets, TLC

VARIABLES
    \* --- TextProcessor.recursive_split, one call ---
    s_text,          \* argument text
    s_size,          \* argument chunk_size
    s_overlap,       \* argument overlap
    s_start,         \* local start
    s_chunks,        \* local chunks
    s_pc,            \* "call" (entered), "loop" (at the while test), "done" (returned)
    \* --- the documents folder ---
    fs,              \* file name -> content of the file
    \* --- the persistent store (chromadb.PersistentClient) ---
    existing,        \* names of the collections the store holds
    recs,            \* collection name -> its records (empty when the name is absent)
    \* --- VectorDBManager ---
    collection_name, \* self.collection_name
    collection,      \* self.collection: the name of the live collection the handle
                     \* refers to, or Deleted when that collection was deleted
    pc,              \* "menu", "files", "batches", "done" (ingest_files), "exited"
    \* --- ingest_files, one call ---
    target_files,    \* the files the for loop visits, in order
    file_i,          \* how many of them the for loop has visited
    batch_docs,      \* local batch_docs
    files_processed, \* local files_processed
    batch_i,         \* the batch loop's i
    \* --- console output of the call and what its external calls did ---
    skipped,         \* names printed with [SKIP]
    read,            \* names printed with [READ]
    stale,           \* those of them whose stored record carried another hash
    purge_err,       \* names whose clean_file_chunks swallowed an exception
    failed,          \* the i of every "[ERROR] ... {i}" line
    done_msg,        \* the closing line: <<>>, <<"none">> or <<"DONE", files_processed>>
    last,            \* the step just taken: handler, inputs, external calls
    \* --- history ---
    prev_hash,       \* file name -> hash computed for it by the latest earlier visit
                     \* of ingest_files to the current collection ("" when none)
    cut,             \* files an interruption of ingest_files left purged and not
                     \* (wholly) written, the process only restarted since
    runs,            \* ingest_files calls so far
    faults           \* failures of external calls so far

splitVars == <<s_text, s_size, s_overlap, s_start, s_chunks, s_pc>>
storeVars == <<existing, recs>>
mgrVars   == <<collection_name, collection>>
runVars   == <<target_files, file_i, batch_docs, files_processed, batch_i>>
outVars   == <<skipped, read, stale, purge_err, failed, done_msg>>

vars == <<s_text, s_size, s_overlap, s_start, s_chunks, s_pc,
          fs, existing, recs, collection_name, collection, pc,
          target_files, file_i, batch_docs, files_processed, batch_i,
          skipped, read, stale, purge_err, failed, done_msg, last, prev_hash, cut,
          runs, faults>>

----------------------------------------------------------------------------
(* Bounds of the splitter's inputs. *)
MaxLen == 5
MaxChunk == 3

Chars == {"a", ".", " ", "\n"}
Whitespace == {" ", "\n"}

Max(a, b) == IF a >= b THEN a ELSE b

Texts == UNION {[1..n -> Chars] : n \in 0..MaxLen}

----------------------------------------------------------------------------
(* Python string primitives used by the splitter. *)

\* t[a:b] for 0 <= a <= b <= len(t)
Slice(t, a, b) == SubSeq(t, a + 1, b)

\* str.strip(): drop leading and trailing whitespace
lstrip_only(t) ==
    IF \A i \in 1..Len(t) : t[i] \in Whitespace THEN <<>>
    ELSE LET first == CHOOSE i \in 1..Len(t) :
                          /\ t[i] \notin Whitespace
                          /\ \A j \in 1..(i - 1) : t[j] \in Whitespace
         IN  SubSeq(t, first, Len(t))

strip(t) ==
    IF \A i \in 1..Len(t) : t[i] \in Whitespace THEN <<>>
    ELSE LET first == CHOOSE i \in 1..Len(t) :
                          /\ t[i] \notin Whitespace
                          /\ \A j \in 1..(i - 1) : t[j] \in Whitespace
             lastc == CHOOSE i \in 1..Len(t) :
                          /\ t[i] \notin Whitespace
                          /\ \A j \in (i + 1)..Len(t) : t[j] \in Whitespace
         IN  SubSeq(t, first, lastc)

\* str.rfind(sep): highest 0-based index where sep occurs in area, or -1
rfind_first(area, sep) ==
    LET hits == {i \in 0..(Len(area) - Len(sep)) :
                     Slice(area, i, i + Len(sep)) = sep}
    IN  IF hits = {} THEN -1
        ELSE CHOOSE i \in hits : \A j \in hits : i <= j

rfind(area, sep) ==
    LET hits == {i \in 0..(Len(area) - Len(sep)) :
                     Slice(area, i, i + Len(sep)) = sep}
    IN  IF hits = {} THEN -1
        ELSE CHOOSE i \in hits : \A j \in hits : j <= i

\* the separators list of recursive_split, in priority order
separators == << <<"\n", "\n">>, <<"\n">>, <<".", " ">>, <<" ">>, <<>> >>

----------------------------------------------------------------------------
(* recursive_split: the search for best_split (the for loop over the       *)
(* separators) and one iteration of the while loop.                        *)

RECURSIVE SepLoop(_, _, _, _)
SepLoop(search_area, search_start, end, k) ==
    LET sep == separators[k]
    IN  IF sep = <<>> THEN end
        ELSE LET idx == rfind(search_area, sep)
             IN  IF idx # -1 THEN search_start + idx + Len(sep)
                 ELSE SepLoop(search_area, search_start, end, k + 1)

BestSplitPastEnd(text, start, end, overlap) ==
    LET search_start == Max(start, end - overlap)
        search_area  == Slice(text, search_start, end)
    IN  SepLoop(search_area, search_start, end, 1) + 1

BestSplit(text, start, end, overlap) ==
    LET search_start == Max(start, end - overlap)
        search_area  == Slice(text, search_start, end)
    IN  SepLoop(search_area, search_start, end, 1)

SplitBodySkipping(text, chunk_size, overlap, start, chunks) ==
    LET text_len == Len(text)
        end      == start + chunk_size
    IN  IF end >= text_len
        THEN LET chunk == strip(Slice(text, start, text_len))
             IN  [start  |-> start,
                  chunks |-> IF chunk # <<>> THEN Append(chunks, chunk) ELSE chunks,
                  brk    |-> TRUE]
        ELSE LET best_split == SepLoop(Slice(text, Max(start, end - overlap), end),
                                       Max(start, end - overlap), end, 1)
                 chunk      == strip(Slice(text, start, best_split))
             IN  [start  |-> best_split + 1,
                  chunks |-> IF chunk # <<>> THEN Append(chunks, chunk) ELSE chunks,
                  brk    |-> FALSE]

SplitBodyJumping(text, chunk_size, overlap, start, chunks) ==
    LET text_len == Len(text)
        end      == start + chunk_size
    IN  IF end >= text_len
        THEN LET chunk == strip(Slice(text, start, text_len))
             IN  [start  |-> start,
                  chunks |-> IF chunk # <<>> THEN Append(chunks, chunk) ELSE chunks,
                  brk    |-> TRUE]
        ELSE LET best_split == BestSplit(text, start, end, overlap)
                 chunk      == strip(Slice(text, start, best_split))
             IN  [start  |-> IF best_split < end THEN end ELSE best_split,
                  chunks |-> IF chunk # <<>> THEN Append(chunks, chunk) ELSE chunks,
                  brk    |-> FALSE]

\* One iteration of `while start < text_len`, entered with the test true.
\* Result: the new start, the new chunks and whether the loop was left by break.
SplitBody(text, chunk_size, overlap, start, chunks) ==
    LET text_len == Len(text)
        end      == start + chunk_size
    IN  IF end >= text_len
        THEN LET chunk == strip(Slice(text, start, text_len))
             IN  [start  |-> start,
                  chunks |-> IF chunk # <<>> THEN Append(chunks, chunk) ELSE chunks,
                  brk    |-> TRUE]
        ELSE LET best_split == BestSplit(text, start, end, overlap)
                 chunk      == strip(Slice(text, start, best_split))
             IN  [start  |-> IF best_split <= end - chunk_size
                             THEN end - overlap ELSE best_split,
                  chunks |-> IF chunk # <<>> THEN Append(chunks, chunk) ELSE chunks,
                  brk    |-> FALSE]

\* The whole call, as the pipeline uses it.
RECURSIVE SplitFrom(_, _, _, _, _)
SplitFrom(text, chunk_size, overlap, start, chunks) ==
    IF ~(start < Len(text)) THEN chunks
    ELSE LET r == SplitBody(text, chunk_size, overlap, start, chunks)
         IN  IF r.brk THEN r.chunks
             ELSE SplitFrom(text, chunk_size, overlap, r.start, r.chunks)

recursive_split(text, chunk_size, overlap) ==
    IF text = <<>> THEN <<>>
    ELSE SplitFrom(text, chunk_size, overlap, 0, <<>>)

----------------------------------------------------------------------------
(* Config, scaled to the sizes the texts of this model have                *)
(* (the program's values are 1000, 200 and 50).                            *)
CHUNK_SIZE == 3
CHUNK_OVERLAP == 1
BATCH_SIZE == 2

(* Bounds: ingest_files calls, and failures (an unreadable file, an exception *)
(* of the store or of the embedding service, an interruption of the process)  *)
(* in one behaviour.                                                          *)
MaxRuns == 2
MaxFaults == 2

B2N(b) == IF b THEN 1 ELSE 0

\* the failures named by the flags fit the budget, and are counted
Inject(n) ==
    /\ faults + n <= MaxFaults
    /\ faults' = faults + n

MAIN == "main_collection"
CollNames == {MAIN, "docs"}
Deleted == "#deleted"

FileNames == {"a.txt", "b.txt"}
\* the file whose content changes between commands
Edited == {"a.txt"}

\* the contents a file of the folder may have: one chunk and two chunks
TextOne == <<"p", "\n", "q">>
TextTwo == <<"e", "f", " ", "g", "h">>
Contents == {TextOne, TextTwo}

Min(a, b) == IF a <= b THEN a ELSE b
Range(f) == {f[i] : i \in DOMAIN f}

----------------------------------------------------------------------------
(* TextProcessor.get_file_hash and read_file.                              *)

\* hashlib.md5(...).hexdigest(): one digest per content, none equal to "error_hash"
hexdigest(content) ==
    IF content = TextOne THEN "md5-1" ELSE "md5-2"

get_file_hash(content, raised) ==
    IF raised THEN "error_hash" ELSE hexdigest(content)

\* the text of the file, or "" for an unsupported or unreadable file
read_file(content, unreadable) ==
    IF unreadable THEN <<>> ELSE content

----------------------------------------------------------------------------
(* The embedding service and VectorDBManager.get_embeddings.               *)

\* t.replace("\n", " ")
replace_newlines(t) == [i \in 1..Len(t) |-> IF t[i] = "\n" THEN " " ELSE t[i]]

\* the vector the model computes for one input text
Vector(t) == <<"vec", t>>

\* the orders in which n response items can arrive
Orders(n) == {p \in [1..n -> 0..(n - 1)] : \A i, j \in 1..n : p[i] = p[j] => i = j}

\* resp.data for the inputs, items arriving in the given order
Response(inputs, order) ==
    [k \in 1..Len(inputs) |->
        [index |-> order[k], embedding |-> Vector(inputs[order[k] + 1])]]

\* sorted(data, key=lambda x: x.index)
RECURSIVE sorted_by_index(_)
sorted_by_index(data) ==
    IF data = <<>> THEN <<>>
    ELSE LET k == CHOOSE i \in 1..Len(data) :
                      /\ \A j \in 1..Len(data) : data[i].index <= data[j].index
                      /\ \A j \in 1..(i - 1) : data[j].index # data[i].index
             rest == [j \in 1..(Len(data) - 1) |-> IF j < k THEN data[j] ELSE data[j + 1]]
         IN  <<data[k]>> \o sorted_by_index(rest)

get_embeddings_unsorted(texts, order) ==
    LET cleaned_texts == [i \in 1..Len(texts) |-> replace_newlines(texts[i])]
        data == Response(cleaned_texts, order)
    IN  [i \in 1..Len(data) |-> data[i].embedding]

get_embeddings(texts, order) ==
    LET cleaned_texts == [i \in 1..Len(texts) |-> replace_newlines(texts[i])]
        data == sorted_by_index(Response(cleaned_texts, order))
    IN  [i \in 1..Len(data) |-> data[i].embedding]

----------------------------------------------------------------------------
(* The store: collection.get / delete / add on the handle.                 *)

HandleLive == collection # Deleted

\* the records of one source in the handle's collection
SourceRecords(filename) ==
    IF HandleLive THEN {r \in recs[collection] : r.metadata.source = filename}
    ELSE {}

\* collection.get(where={"source": filename}, include=["metadatas"], limit=1):
\* it raises, or answers with at most one of the matching records
GetResults(filename) ==
    {[raised |-> TRUE, metadatas |-> <<>>]}
    \cup (IF ~HandleLive THEN {}
          ELSE IF SourceRecords(filename) = {}
               THEN {[raised |-> FALSE, metadatas |-> <<>>]}
               ELSE {[raised |-> FALSE, metadatas |-> <<r.metadata>>] :
                        r \in SourceRecords(filename)})

\* collection.delete(where={"source": filename}) on a set of records
delete_where_first(records, filename) ==
    {r \in records : r.metadata.source # filename \/ r.metadata.chunk_index # 0}

delete_where(records, filename) ==
    {r \in records : r.metadata.source # filename}

\* collection.add(ids, embeddings, documents, metadatas) on a set of records:
\* a record whose id the collection already holds is ignored
add(records, ids, embeddings, documents, metadatas) ==
    records \cup
    {[id |-> ids[i], embedding |-> embeddings[i],
      document |-> documents[i], metadata |-> metadatas[i]] :
        i \in {j \in 1..Len(ids) : \A r \in records : r.id # ids[j]}}

----------------------------------------------------------------------------
(* VectorDBManager.file_needs_update and clean_file_chunks.                *)

file_needs_update_inverted(res, current_hash) ==
    IF res.raised THEN TRUE
    ELSE IF res.metadatas = <<>> THEN TRUE
    ELSE res.metadatas[1].file_hash = current_hash

file_needs_update_trusting(res, current_hash) ==
    IF res.raised THEN FALSE
    ELSE IF res.metadatas = <<>> THEN TRUE
    ELSE res.metadatas[1].file_hash # current_hash

file_needs_update(res, current_hash) ==
    IF res.raised THEN TRUE
    ELSE IF res.metadatas = <<>> THEN TRUE
    ELSE res.metadatas[1].file_hash # current_hash

\* the handle's records after clean_file_chunks(filename); an exception is swallowed
clean_keeps_all(records, filename, raised) ==
    records

clean_file_chunks(records, filename, raised) ==
    IF raised THEN records
    ELSE delete_where(records, filename)

----------------------------------------------------------------------------
(* ingest_files: the documents one file contributes to batch_docs.         *)

file_docs_from_one(name, f_hash, chunks) ==
    [i \in 1..Len(chunks) |->
        [id |-> <<name, i>>,
         text |-> chunks[i],
         metadata |-> [source |-> name, file_hash |-> f_hash, chunk_index |-> i]]]

file_docs(name, f_hash, chunks) ==
    [i \in 1..Len(chunks) |->
        [id |-> <<name, i - 1>>,
         text |-> chunks[i],
         metadata |-> [source |-> name, file_hash |-> f_hash, chunk_index |-> i - 1]]]

NoStep == [op |-> "init"]

----------------------------------------------------------------------------
(* Initial state: a fresh store after VectorDBManager.__init__, any folder. *)

SplitIdle ==
    /\ s_text = <<>>
    /\ s_size = 1
    /\ s_overlap = 0
    /\ s_start = 0
    /\ s_chunks = <<>>
    /\ s_pc = "done"

RunIdle ==
    /\ target_files = <<>>
    /\ file_i = 0
    /\ batch_docs = <<>>
    /\ files_processed = 0
    /\ batch_i = 0
    /\ skipped = {}
    /\ read = {}
    /\ stale = {}
    /\ purge_err = {}
    /\ failed = {}
    /\ done_msg = <<>>

Init ==
    /\ SplitIdle
    /\ fs \in {g \in [FileNames -> Contents] : \A f \in FileNames \ Edited : g[f] = TextOne}
    /\ existing = {MAIN}
    /\ recs = [n \in CollNames |-> {}]
    /\ collection_name = MAIN
    /\ collection = MAIN
    /\ pc = "menu"
    /\ RunIdle
    /\ last = NoStep
    /\ prev_hash = [f \in FileNames |-> ""]
    /\ cut = {}
    /\ runs = 0
    /\ faults = 0

----------------------------------------------------------------------------
(* The folder changes between two commands. *)

EditFile(f, c) ==
    /\ pc = "menu"
    /\ fs[f] # c
    /\ fs' = [fs EXCEPT ![f] = c]
    /\ last' = [op |-> "edit"]
    /\ cut' = cut \ {f}
    /\ UNCHANGED <<splitVars, storeVars, mgrVars, pc, runVars, outVars, prev_hash, runs,
                   faults>>

----------------------------------------------------------------------------
(* Collection lifecycle.  Every store call may raise.                      *)

\* client.delete_collection(name) on the store, when it does not raise
StoreAfterDelete(name) ==
    [existing |-> existing \ {name},
     recs     |-> [recs EXCEPT ![name] = {}],
     handle   |-> IF collection = name THEN Deleted ELSE collection]

NoHistory == [f \in FileNames |-> ""]

\* set_collection with a store that makes the named collection anew
set_collection_anew(name, refresh_raises, swallowed) ==
    /\ pc = "menu"
    /\ Inject(B2N(refresh_raises))
    /\ collection_name' = name
    /\ IF refresh_raises
       THEN /\ UNCHANGED <<existing, recs, collection>>
            /\ pc' = IF swallowed /\ name \in existing THEN "menu" ELSE "exited"
       ELSE /\ existing' = existing \cup {name}
            /\ collection' = name
            /\ recs' = [recs EXCEPT ![name] = {}]
            /\ UNCHANGED pc
    /\ last' = [op |-> "set", name |-> name, raised |-> refresh_raises]
    /\ prev_hash' = NoHistory
    /\ cut' = {}
    /\ UNCHANGED <<splitVars, fs, runVars, outVars, runs>>

\* set_collection(name); when _refresh_collection_obj raises, the exception leaves
\* set_collection: the (S)witch branch swallows a ValueError, anything else ends
\* the process
set_collection(name, refresh_raises, swallowed) ==
    /\ pc = "menu"
    /\ Inject(B2N(refresh_raises))
    /\ collection_name' = name
    /\ IF refresh_raises
       THEN /\ UNCHANGED <<existing, recs, collection>>
            /\ pc' = IF swallowed /\ name \in existing THEN "menu" ELSE "exited"
       ELSE /\ existing' = existing \cup {name}
            /\ collection' = name
            /\ UNCHANGED <<recs, pc>>
    /\ last' = [op |-> "set", name |-> name, raised |-> refresh_raises]
    /\ prev_hash' = IF name = collection_name /\ ~refresh_raises /\ collection = name
                    THEN prev_hash ELSE NoHistory
    /\ cut' = {}
    /\ UNCHANGED <<splitVars, fs, runVars, outVars, runs>>

\* truncate_collection without the call of _refresh_collection_obj
truncate_without_refresh(delete_raises, refresh_raises) ==
    /\ pc = "menu"
    /\ Inject(B2N(delete_raises) + B2N(refresh_raises))
    /\ IF delete_raises \/ collection_name \notin existing
       THEN UNCHANGED <<existing, recs, collection>>
       ELSE LET d == StoreAfterDelete(collection_name)
            IN  /\ recs' = d.recs
                /\ existing' = d.existing
                /\ collection' = d.handle
    /\ last' = [op |-> "truncate", name |-> collection_name,
                delete_raised |-> (delete_raises \/ collection_name \notin existing),
                refresh_raised |-> (refresh_raises /\ ~delete_raises
                                       /\ collection_name \in existing)]
    /\ prev_hash' = NoHistory
    /\ cut' = {}
    /\ UNCHANGED <<splitVars, fs, collection_name, pc, runVars, outVars, runs>>

truncate_collection(delete_raises, refresh_raises) ==
    /\ pc = "menu"
    /\ Inject(B2N(delete_raises) + B2N(refresh_raises))
    /\ IF delete_raises \/ collection_name \notin existing
       THEN UNCHANGED <<existing, recs, collection>>
       ELSE LET d == StoreAfterDelete(collection_name)
            IN  /\ recs' = d.recs
                /\ IF refresh_raises
                   THEN /\ existing' = d.existing
                        /\ collection' = d.handle
                   ELSE /\ existing' = d.existing \cup {collection_name}
                        /\ collection' = collection_name
    /\ last' = [op |-> "truncate", name |-> collection_name,
                delete_raised |-> (delete_raises \/ collection_name \notin existing),
                refresh_raised |-> (refresh_raises /\ ~delete_raises
                                       /\ collection_name \in existing)]
    /\ prev_hash' = NoHistory
    /\ cut' = {}
    /\ UNCHANGED <<splitVars, fs, collection_name, pc, runVars, outVars, runs>>

\* `if target == "main_collection"`: the system collection is not dropped
protects_nothing(target) == FALSE

protects_other(target) == target # "main_collection"

is_protected(target) == target = "main_collection"

drop_collection(delete_raises, refresh_raises) ==
    /\ pc = "menu"
    /\ Inject(B2N(delete_raises) + B2N(refresh_raises))
    /\ LET target == collection_name
       IN  IF is_protected(target)
           THEN /\ UNCHANGED <<existing, recs, collection_name, collection, prev_hash>>
                /\ last' = [op |-> "drop", name |-> target, refused |-> TRUE]
           ELSE /\ IF delete_raises \/ target \notin existing
                   THEN UNCHANGED <<existing, recs, collection_name, collection>>
                   ELSE LET d == StoreAfterDelete(target)
                        IN  /\ recs' = d.recs
                            /\ collection_name' = "main_collection"
                            /\ IF refresh_raises
                               THEN /\ existing' = d.existing
                                    /\ collection' = d.handle
                               ELSE /\ existing' = d.existing \cup {"main_collection"}
                                    /\ collection' = "main_collection"
                /\ last' = [op |-> "drop", name |-> target, refused |-> FALSE,
                            delete_raised |-> (delete_raises \/ target \notin existing),
                            refresh_raised |-> (refresh_raises /\ ~delete_raises
                                                   /\ target \in existing)]
                /\ prev_hash' = NoHistory
    /\ cut' = {}
    /\ UNCHANGED <<splitVars, fs, pc, runVars, outVars, runs>>

\* main() started again after the process ended: __init__ selects the default
main ==
    /\ pc = "exited"
    /\ collection_name' = "main_collection"
    /\ existing' = existing \cup {"main_collection"}
    /\ collection' = "main_collection"
    /\ pc' = "menu"
    /\ last' = [op |-> "main"]
    /\ prev_hash' = NoHistory
    /\ UNCHANGED <<splitVars, fs, recs, runVars, outVars, cut, runs, faults>>

----------------------------------------------------------------------------
(* ingest_files.                                                           *)

\* the orders in which the folder's files can be visited: a range of the sorted
\* listing (rag_manager.py) or the listing in directory order (save_to_chroma.py)
Selections ==
    {<<"a.txt">>, <<"b.txt">>, <<"a.txt", "b.txt">>, <<"b.txt", "a.txt">>}

\* the call up to the for loop
IngestStart(selection) ==
    /\ pc = "menu"
    /\ runs < MaxRuns
    /\ runs' = runs + 1
    /\ target_files' = selection
    /\ file_i' = 0
    /\ batch_docs' = <<>>
    /\ files_processed' = 0
    /\ batch_i' = 0
    /\ skipped' = {}
    /\ read' = {}
    /\ stale' = {}
    /\ purge_err' = {}
    /\ failed' = {}
    /\ done_msg' = <<>>
    /\ pc' = "files"
    /\ last' = [op |-> "ingest"]
    /\ UNCHANGED <<splitVars, fs, storeVars, mgrVars, prev_hash, cut, faults>>

\* `if not text: continue`: a file whose text is empty is given up
abandoned_never(text) == FALSE

abandoned(text) == text = <<>>

\* where ingest_files goes after the visit of file i of n, total_chunks being
\* len(batch_docs): the for loop visits every file before `if total_chunks > 0`
after_file_flush(i, n, total_chunks) ==
    IF total_chunks > 0 THEN "batches"
    ELSE IF i + 1 < n THEN "files" ELSE "done"

after_file(i, n, total_chunks) ==
    IF i + 1 < n THEN "files"
    ELSE IF total_chunks > 0 THEN "batches" ELSE "done"

\* one iteration of `for file_path in target_files`; after the last one, the
\* code up to the batch loop
IngestFile(hash_raises, delete_raises, unreadable) ==
    /\ pc = "files"
    /\ \E res \in GetResults(target_files[file_i + 1]) :
       LET name   == target_files[file_i + 1]
           f_hash == get_file_hash(fs[name], hash_raises)
           needs  == file_needs_update(res, f_hash)
           draise == delete_raises \/ ~HandleLive
           text   == read_file(fs[name], unreadable)
           chunks == recursive_split(text, CHUNK_SIZE, CHUNK_OVERLAP)
           docs   == IF needs /\ ~abandoned(text)
                     THEN batch_docs \o file_docs(name, f_hash, chunks)
                     ELSE batch_docs
       IN  /\ Inject(B2N(hash_raises) + B2N(res.raised /\ HandleLive)
                      + B2N(delete_raises) + B2N(unreadable))
           /\ IF ~needs
              THEN /\ skipped' = skipped \cup {name}
                   /\ UNCHANGED <<read, stale, purge_err, recs, files_processed>>
              ELSE /\ read' = read \cup {name}
                   /\ stale' = IF ~res.raised /\ res.metadatas # <<>>
                               THEN stale \cup {name} ELSE stale
                   /\ purge_err' = IF draise THEN purge_err \cup {name} ELSE purge_err
                   /\ recs' = IF HandleLive
                              THEN [recs EXCEPT ![collection] =
                                       clean_file_chunks(@, name, draise)]
                              ELSE recs
                   /\ files_processed' = IF ~abandoned(text) THEN files_processed + 1
                                         ELSE files_processed
                   /\ UNCHANGED skipped
           /\ batch_docs' = docs
           /\ file_i' = file_i + 1
           /\ pc' = after_file(file_i, Len(target_files), Len(docs))
           /\ done_msg' = IF pc' = "done" THEN <<"none">> ELSE done_msg
           /\ prev_hash' = [prev_hash EXCEPT ![name] = f_hash]
           /\ last' = [op |-> "file", file |-> name, f_hash |-> f_hash, res |-> res,
                       calls |-> IF needs THEN <<"get", "delete">> ELSE <<"get">>,
                       empty |-> (needs /\ text = <<>>)]
    /\ UNCHANGED <<splitVars, fs, existing, mgrVars, target_files, batch_i, failed, cut,
                   runs>>

\* where the batch loop goes after the batch at i: its try/except keeps an
\* exception inside the iteration
after_batch_abort(i, total_chunks, raised) ==
    IF ~raised /\ i + BATCH_SIZE < total_chunks THEN "batches" ELSE "done"

after_batch(i, total_chunks, raised) ==
    IF i + BATCH_SIZE < total_chunks THEN "batches" ELSE "done"

\* batch_docs[i : i + config.BATCH_SIZE]
batch_slice_short(docs, i) ==
    SubSeq(docs, i + 1, Min(i + BATCH_SIZE - 1, Len(docs)))

batch_slice(docs, i) ==
    SubSeq(docs, i + 1, Min(i + BATCH_SIZE, Len(docs)))

\* one iteration of `for i in range(0, total_chunks, BATCH_SIZE)`; after the last
\* one, the [DONE] line
IngestBatch(embed_raises, add_raises) ==
    /\ pc = "batches"
    /\ Inject(B2N(embed_raises) + B2N(add_raises))
    /\ \E order \in Orders(Len(batch_slice(batch_docs, batch_i))) :
       LET total_chunks == Len(batch_docs)
           i     == batch_i
           batch == batch_slice(batch_docs, i)
           n     == Len(batch)
           ids   == [k \in 1..n |-> batch[k].id]
           texts == [k \in 1..n |-> batch[k].text]
           metas == [k \in 1..n |-> batch[k].metadata]
           araise == add_raises \/ ~HandleLive
       IN  /\ IF embed_raises \/ araise
              THEN /\ failed' = failed \cup {i}
                   /\ UNCHANGED recs
              ELSE /\ recs' = [recs EXCEPT ![collection] =
                                  add(@, ids, get_embeddings(texts, order), texts, metas)]
                   /\ UNCHANGED failed
           /\ batch_i' = i + BATCH_SIZE
           /\ pc' = after_batch(i, total_chunks, embed_raises \/ araise)
           /\ done_msg' = IF pc' = "done" THEN <<"DONE", files_processed>> ELSE done_msg
           /\ last' = [op |-> "batch", i |-> i, ids |-> ids,
                       data |-> IF embed_raises THEN <<>>
                                ELSE Response([k \in 1..n |-> replace_newlines(texts[k])],
                                              order),
                       calls |-> IF embed_raises THEN <<"embed">> ELSE <<"embed", "add">>,
                       raised |-> (embed_raises \/ araise)]
    /\ UNCHANGED <<splitVars, fs, existing, mgrVars, target_files, file_i, batch_docs,
                   files_processed, skipped, read, stale, purge_err, prev_hash, cut,
                   runs>>

\* the call returns to the menu; its locals are gone
IngestReturn ==
    /\ pc = "done"
    /\ pc' = "menu"
    /\ target_files' = <<>>
    /\ file_i' = 0
    /\ batch_docs' = <<>>
    /\ files_processed' = 0
    /\ batch_i' = 0
    /\ skipped' = {}
    /\ read' = {}
    /\ stale' = {}
    /\ purge_err' = {}
    /\ failed' = {}
    /\ done_msg' = <<>>
    /\ last' = [op |-> "return"]
    /\ cut' = {}
    /\ UNCHANGED <<splitVars, fs, storeVars, mgrVars, prev_hash, runs, faults>>

\* the files of the run whose chunks are not all submitted yet: purged, and
\* waiting in batch_docs (or read as empty) when the run stops here
Unfinished ==
    IF pc = "files" THEN read \ purge_err
    ELSE {f \in read \ purge_err : \E k \in (batch_i + 1)..Len(batch_docs) :
                                      batch_docs[k].metadata.source = f}

\* the process is interrupted inside ingest_files (KeyboardInterrupt is no
\* Exception, so no handler of the call catches it; or the process is killed):
\* the locals are gone, the store keeps what was deleted and written so far
Interrupt ==
    /\ pc \in {"files", "batches"}
    /\ Inject(1)
    /\ pc' = "exited"
    /\ cut' = Unfinished
    /\ target_files' = <<>>
    /\ file_i' = 0
    /\ batch_docs' = <<>>
    /\ files_processed' = 0
    /\ batch_i' = 0
    /\ skipped' = {}
    /\ read' = {}
    /\ stale' = {}
    /\ purge_err' = {}
    /\ failed' = {}
    /\ done_msg' = <<>>
    /\ last' = [op |-> "interrupt"]
    /\ UNCHANGED <<splitVars, fs, storeVars, mgrVars, prev_hash, runs>>

Next ==
    \/ \E f \in Edited, c \in Contents : EditFile(f, c)
    \/ \E name \in CollNames, r, v \in BOOLEAN : set_collection(name, r, v)
    \/ \E d, r \in BOOLEAN : truncate_collection(d, r)
    \/ \E d, r \in BOOLEAN : drop_collection(d, r)
    \/ main
    \/ \E sel \in Selections : IngestStart(sel)
    \/ \E h, d, u \in BOOLEAN : IngestFile(h, d, u)
    \/ \E e, a \in BOOLEAN : IngestBatch(e, a)
    \/ IngestReturn
    \/ Interrupt

Spec == Init /\ [][Next]_vars

----------------------------------------------------------------------------
(* Properties of the ingestion pipeline and of the collection lifecycle.   *)

\* the file the for loop of ingest_files visits next
CurrentFile == target_files[file_i + 1]

\* the documents of batch_docs that come from one file, in order
DocsOf(name) == SelectSeq(batch_docs, LAMBDA d : d.metadata.source = name)

\* the batch the batch loop submits next
CurrentBatch ==
    SubSeq(batch_docs, batch_i + 1, Min(batch_i + BATCH_SIZE, Len(batch_docs)))

\* the i of the batch that holds document k of batch_docs
BatchStart(k) == ((k - 1) \div BATCH_SIZE) * BATCH_SIZE

\* some failed batch held a document of the file
InFailedBatch(name) ==
    \E k \in 1..Len(batch_docs) :
        /\ batch_docs[k].metadata.source = name
        /\ BatchStart(k) \in failed

\* a stored record without its vector
AsDoc(r) == [id |-> r.id, text |-> r.document, metadata |-> r.metadata]

\* C1 (as amended): when the query of the store succeeds and every stored record
\* of the file's source carries the hash computed now, the visit of the file makes
\* no call but that query, writes nothing to the store, hands no chunk to the
\* embedding batches and prints the file as skipped.
C1_SkipUnchanged ==
    [][(pc = "files" /\ last'.op = "file") =>
          LET name == CurrentFile
          IN  ( /\ ~last'.res.raised
                /\ SourceRecords(name) # {}
                /\ \A r \in SourceRecords(name) : r.metadata.file_hash = last'.f_hash )
              => /\ name \in skipped'
                 /\ name \notin read'
                 /\ last'.calls = <<"get">>
                 /\ recs' = recs
                 /\ batch_docs' = batch_docs
                 /\ SelectSeq(batch_docs', LAMBDA d : d.metadata.source = name) = <<>>
                 /\ files_processed' = files_processed]_vars

\* C1 witness: a file was visited again, found unchanged and skipped
C1_Witness ==
    /\ last.op = "file"
    /\ last.file \in skipped
    /\ last.calls = <<"get">>
    /\ SourceRecords(last.file) # {}
    /\ runs = 2

\* C1 as stated: a file whose content hash is the one the previous run computed
\* for it is skipped without a store write.
C1_AsStated ==
    [][(pc = "files" /\ last'.op = "file") =>
          LET name == CurrentFile
          IN  (last'.f_hash # "error_hash" /\ prev_hash[name] = last'.f_hash)
              => /\ name \in skipped'
                 /\ last'.calls = <<"get">>
                 /\ recs' = recs]_vars

\* C2 (as amended): at the end of a run, for every file found to need an update
\* whose purge did not fail and none of whose batches failed, the records of its
\* source are exactly the chunks 0..n-1 of the splitter for the text read, in
\* order, with id (source, index) and the hash computed in this run.
C2_PurgeAndRewrite ==
    pc = "done" =>
        \A name \in read :
            (name \notin purge_err /\ ~InFailedBatch(name)) =>
                /\ {AsDoc(r) : r \in SourceRecords(name)} = Range(DocsOf(name))
                /\ \E text \in {fs[name], <<>>}, h \in {hexdigest(fs[name]), "error_hash"} :
                      /\ DocsOf(name) =
                            file_docs(name, h, recursive_split(text, CHUNK_SIZE, CHUNK_OVERLAP))
                      /\ \A r \in SourceRecords(name) : r.metadata.file_hash = h

\* C2 witness: a run ended that replaced the records of a changed file
C2_Witness ==
    /\ pc = "done"
    /\ \E name \in stale :
          /\ name \notin purge_err
          /\ ~InFailedBatch(name)
          /\ Cardinality(SourceRecords(name)) = 2

\* C2 as stated: the same for every file found to need an update.
C2_AsStated ==
    pc = "done" =>
        \A name \in read :
            /\ {AsDoc(r) : r \in SourceRecords(name)} = Range(DocsOf(name))
            /\ \E text \in {fs[name], <<>>}, h \in {hexdigest(fs[name]), "error_hash"} :
                  /\ DocsOf(name) =
                        file_docs(name, h, recursive_split(text, CHUNK_SIZE, CHUNK_OVERLAP))
                  /\ \A r \in SourceRecords(name) : r.metadata.file_hash = h

C4_VectorsByIndex ==
    [][(pc = "batches" /\ last'.op = "batch" /\ ~last'.raised) =>
          \A k \in 1..Len(CurrentBatch) :
              \A r \in recs'[collection] \ recs[collection] :
                  r.id = CurrentBatch[k].id =>
                      \E j \in 1..Len(last'.data) :
                          /\ last'.data[j].index = k - 1
                          /\ r.embedding = last'.data[j].embedding]_vars

\* C4 witness: a batch of two different texts was stored from a response whose
\* items came back in reverse order
C4_Witness ==
    /\ last.op = "batch"
    /\ ~last.raised
    /\ Len(last.data) = 2
    /\ last.data[1].index = 1
    /\ last.data[1].embedding # last.data[2].embedding
    /\ \A id \in Range(last.ids) : \E r \in recs[collection] : r.id = id

\* C5: drop_collection with the default collection current is refused and leaves
\* the collections, their records, the current name and the handle as they were.
C5_DropDefaultRefused ==
    [][(pc = "menu" /\ last'.op = "drop" /\ collection_name = "main_collection") =>
          /\ last'.refused
          /\ existing' = existing
          /\ recs' = recs
          /\ collection_name' = collection_name
          /\ collection' = collection
          /\ pc' = pc]_vars

\* C5 witness: the drop of a default collection that holds records was refused
C5_Witness ==
    /\ last.op = "drop"
    /\ last.refused
    /\ collection_name = "main_collection"
    /\ "main_collection" \in existing
    /\ recs["main_collection"] # {}

\* what C6 says of a truncate_collection step
TruncateEmpties ==
    /\ collection_name' = collection_name
    /\ collection_name \in existing'
    /\ recs'[collection_name] = {}
    /\ collection' = collection_name
    /\ \A other \in CollNames \ {collection_name} :
          /\ recs'[other] = recs[other]
          /\ (other \in existing') = (other \in existing)

C10_NeedsUpdate ==
    [][(pc = "files" /\ last'.op = "file") =>
          LET name == CurrentFile
              res  == last'.res
          IN  /\ name \in skipped' \/ name \in read'
              /\ name \in skipped' =>
                    /\ ~res.raised
                    /\ \E r \in SourceRecords(name) :
                          /\ res.metadatas = <<r.metadata>>
                          /\ r.metadata.file_hash = last'.f_hash
              /\ SourceRecords(name) = {} => name \in read'
              /\ res.raised => name \in read'
              /\ (~res.raised /\ res.metadatas # <<>>
                    /\ res.metadatas[1].file_hash # last'.f_hash) => name \in read']_vars

\* C10 witness: in one run a file was skipped and a file whose query raised,
\* although its records carry the current hash, was taken as needing an update
C10_Witness ==
    /\ last.op = "file"
    /\ last.res.raised
    /\ last.file \in read
    /\ skipped # {}
    /\ \E r \in SourceRecords(last.file) : r.metadata.file_hash = last.f_hash

\* C11 as stated: in every run, a file whose hash could not be computed (its hash
\* is the sentinel "error_hash") is taken as needing an update and is not skipped.
C11_AsStated ==
    [][(pc = "files" /\ last'.op = "file") =>
          (last'.f_hash = "error_hash" =>
              /\ CurrentFile \in read'
              /\ CurrentFile \notin skipped')]_vars

\* id and text of the chunks the splitter gives for the file as it is now
ChunkSet(f) ==
    {<<d.id, d.text>> :
        d \in Range(file_docs(f, "", recursive_split(fs[f], CHUNK_SIZE, CHUNK_OVERLAP)))}

\* C12 as stated: when an interruption left a file purged and not wholly written,
\* a following run over the unchanged file in which no call fails takes the file
\* as needing an update and leaves the store with the complete chunk set of the
\* file.
C12_AsStated ==
    (pc = "done" /\ failed = {} /\ purge_err = {}) =>
        \A f \in cut :
            (f \in Range(target_files) /\ (f \in read => DocsOf(f) # <<>>)) =>
                /\ f \in read
                /\ {<<r.id, r.document>> : r \in SourceRecords(f)} = ChunkSet(f)

\* the positions in batch_docs of the chunks the handle's collection holds
WrittenDocs ==
    {k \in 1..Len(batch_docs) :
        HandleLive /\ \E r \in recs[collection] : AsDoc(r) = batch_docs[k]}

\* C13 as stated: at the end of a run that had chunks to write, the chunk figure
\* the run printed (total_chunks of the [EMBED] line, its only one) is the number
\* of its chunks the store holds, the figure of the [DONE] line is the number of
\* files of which the run stored a chunk, and the files printed [SKIP] are the
\* visited files that were not re-read.
C13_AsStated ==
    (pc = "done" /\ done_msg # <<"none">>) =>
        /\ Len(batch_docs) = Cardinality(WrittenDocs)
        /\ done_msg[2] =
              Cardinality({f \in read : \E k \in WrittenDocs :
                                           batch_docs[k].metadata.source = f})
        /\ skipped = Range(target_files) \ read

\* the records of the source in the handle's collection carry one hash
OneHash(f) ==
    \A r1, r2 \in SourceRecords(f) : r1.metadata.file_hash = r2.metadata.file_hash

\* C14 (as amended): at the end of a run in which no batch failed, the records of
\* every source the run re-read and whose purge did not fail carry one hash.
C14_OneHashAfterRun ==
    (pc = "done" /\ failed = {}) =>
        \A f \in read \ purge_err : OneHash(f)

\* C14 witness: a run without a failed batch replaced the two records of a changed
\* file while the purge of another file failed
C14_Witness ==
    /\ pc = "done"
    /\ failed = {}
    /\ purge_err # {}
    /\ \E f \in stale \ purge_err :
          /\ Cardinality(SourceRecords(f)) = 2
          /\ \A r \in SourceRecords(f) : r.metadata.file_hash = hexdigest(fs[f])

\* C14 as stated: at the end of a run in which no batch failed, the records of
\* every source carry one hash, also when the purge failed.
C14_AsStated ==
    (pc = "done" /\ failed = {}) =>
        \A f \in FileNames : OneHash(f)

\* the chunk indexes of the source's records are 0..k-1, each on one record
Contiguous(f) ==
    LET idx == {r.metadata.chunk_index : r \in SourceRecords(f)}
    IN  /\ idx = 0..(Cardinality(idx) - 1)
        /\ Cardinality(SourceRecords(f)) = Cardinality(idx)

\* every record's id is made of its source and chunk index, and no collection
\* holds two records with one id
IdsUnique ==
    \A n \in CollNames :
        /\ \A r \in recs[n] : r.id = <<r.metadata.source, r.metadata.chunk_index>>
        /\ \A r1, r2 \in recs[n] : r1.id = r2.id => r1 = r2

\* C15 (as amended): in every state each id occurs once in a collection; at the
\* end of a run, for every source the run re-read whose purge did not fail and
\* none of whose batches failed, the chunk indexes of its records are exactly
\* 0..k-1.
C15_ContiguousIndexes ==
    /\ IdsUnique
    /\ pc = "done" =>
          \A f \in read \ purge_err : ~InFailedBatch(f) => Contiguous(f)

\* C15 witness: a run wrote chunks 0 and 1 of a file and failed on the batch of
\* another file
C15_Witness ==
    /\ pc = "done"
    /\ failed # {}
    /\ \E f \in read \ purge_err :
          /\ ~InFailedBatch(f)
          /\ {r.metadata.chunk_index : r \in SourceRecords(f)} = {0, 1}

\* C15 as stated: at the end of every run the chunk indexes of the records of
\* each source are exactly 0..k-1 and each id occurs once.
C15_AsStated ==
    /\ IdsUnique
    /\ pc = "done" => \A f \in FileNames : Contiguous(f)

Pending ==
    {f \in read : \E k \in (batch_i + 1)..Len(batch_docs) :
                      batch_docs[k].metadata.source = f}

AbandonedStep ==
    /\ CurrentFile \in read'
    /\ last'.calls = <<"get", "delete">>
    /\ batch_docs' = batch_docs
    /\ files_processed' = files_processed
    /\ file_i' = file_i + 1
    /\ file_i + 1 < Len(target_files) => pc' = "files"

\* the handle's collection holds no record of the file just visited
NoneLeft ==
    HandleLive => \A r \in recs'[collection] : r.metadata.source # CurrentFile

\* C18 (as amended): when read_file gives an empty text for a file found to need
\* an update, the file is given up after the purge: none of its chunks is handed
\* to the batches, it is not counted in files_processed, the loop goes on with the
\* next file, and, when the purge did not fail, the collection holds no record
\* of the source, at once and at the end of the run.
C18_EmptyTextAbandoned ==
    [][/\ (pc = "files" /\ last'.op = "file" /\ last'.empty) =>
             /\ AbandonedStep
             /\ CurrentFile \notin purge_err' => NoneLeft
       /\ pc' = "done" =>
             \A f \in read' \ purge_err' :
                 SelectSeq(batch_docs', LAMBDA d : d.metadata.source = f) = <<>> =>
                     \A r \in recs'[collection'] : r.metadata.source # f]_vars

\* C18 witness: a changed file with stored records was purged, read as empty and
\* given up, and the run goes on with the next file
C18_Witness ==
    /\ last.op = "file"
    /\ last.empty
    /\ last.file \in stale \ purge_err
    /\ SourceRecords(last.file) = {}
    /\ batch_docs = <<>>
    /\ files_processed = 0
    /\ pc = "files"

\* C18 as stated: the same, the collection holding no record of the source
\* whenever the file was given up.
C18_AsStated ==
    [][(pc = "files" /\ last'.op = "file" /\ last'.empty) =>
          /\ AbandonedStep
          /\ NoneLeft]_vars

\* what C20 says of a set_collection(name) step
GetOrCreate(name) ==
    /\ existing' = existing \cup {name}
    /\ name \notin existing => recs'[name] = {}
    /\ recs' = recs
    /\ collection_name' = name
    /\ collection' = name

C21_BatchesInOrder ==
    [][/\ (pc = "files" /\ pc' = "batches") => batch_i' = 0
       /\ (pc = "batches" /\ last'.op = "batch") =>
             LET total == Len(batch_docs)
                 n     == Len(last'.ids)
             IN  /\ last'.i = batch_i
                 /\ n >= 1
                 /\ n <= BATCH_SIZE
                 /\ batch_i + n <= total
                 /\ \A k \in 1..n : last'.ids[k] = batch_docs[batch_i + k].id
                 /\ pc' \in {"batches", "done"}
                 /\ pc' = "batches" => (n = BATCH_SIZE /\ batch_i' = batch_i + n)
                 /\ pc' = "done" => batch_i + n = total
                 /\ batch_docs' = batch_docs
                 /\ Cardinality({k \in 1..Len(last'.calls) : last'.calls[k] = "embed"}) = 1]_vars

\* C21 witness: a run of three chunks ended after a batch of two and a batch of
\* one
C21_Witness ==
    /\ pc = "done"
    /\ last.op = "batch"
    /\ Len(batch_docs) = 3
    /\ last.i = 2
    /\ last.ids = <<batch_docs[3].id>>
    /\ Cardinality(WrittenDocs) = 3

\* C23 as stated: after every set_collection, truncate_collection and
\* drop_collection that returns to the menu, a store call of it having failed or
\* not, the current name names a collection of the store and the handle refers
\* to that collection.
C23_AsStated ==
    [][(pc = "menu" /\ last'.op \in {"set", "truncate", "drop"} /\ pc' = "menu") =>
          /\ collection_name' \in existing'
          /\ collection' = collection_name']_vars

\* C24 as stated: drop_collection of a current collection other than the default
\* removes the collection and its records from the store and makes the default
\* collection current (name and handle, the default being in the store); when the
\* store's delete fails, the collections of the store and the current collection
\* are unchanged.
C24_AsStated ==
    [][(pc = "menu" /\ last'.op = "drop" /\ ~last'.refused) =>
          IF last'.delete_raised
          THEN UNCHANGED <<existing, recs, collection_name, collection>>
          ELSE /\ last'.name \notin existing'
               /\ recs'[last'.name] = {}
               /\ collection_name' = "main_collection"
               /\ collection' = "main_collection"
               /\ "main_collection" \in existing']_vars

\* the steps of drop_collection in which the re-selection of the default does
\* what C24 says, i.e. those whose get_or_create_collection does not raise
C24_DropReselected ==
    [][(pc = "menu" /\ last'.op = "drop" /\ ~last'.refused
           /\ ~last'.refresh_raised) =>
          IF last'.delete_raised
          THEN UNCHANGED <<existing, recs, collection_name, collection>>
          ELSE /\ last'.name \notin existing'
               /\ recs'[last'.name] = {}
               /\ collection_name' = "main_collection"
               /\ collection' = "main_collection"
               /\ "main_collection" \in existing'
               /\ \A c \in DOMAIN recs \ {last'.name} : recs'[c] = recs[c]]_vars

----------------------------------------------------------------------------
(* The splitter run step by step on every bounded input. *)

SplitInit ==
    /\ s_text \in Texts
    /\ s_size \in 1..MaxChunk
    /\ s_overlap \in 0..MaxChunk
    /\ s_start = 0
    /\ s_chunks = <<>>
    /\ s_pc = "call"
    /\ fs = [f \in FileNames |-> TextOne]
    /\ existing = {MAIN}
    /\ recs = [n \in CollNames |-> {}]
    /\ collection_name = MAIN
    /\ collection = MAIN
    /\ pc = "menu"
    /\ RunIdle
    /\ last = NoStep
    /\ prev_hash = [f \in FileNames |-> ""]
    /\ cut = {}
    /\ runs = 0
    /\ faults = 0

\* `if not text: return []`, else the locals are set and the loop is reached
SplitCall ==
    /\ s_pc = "call"
    /\ s_pc' = IF s_text = <<>> THEN "done" ELSE "loop"
    /\ UNCHANGED <<s_text, s_size, s_overlap, s_start, s_chunks>>
    /\ UNCHANGED <<fs, storeVars, mgrVars, pc, runVars, outVars, last, prev_hash, cut, runs,
                   faults>>

\* the while test and, when it holds, one iteration of the loop body;
\* the call returns when the test fails or the body breaks
SplitIter ==
    /\ s_pc = "loop"
    /\ IF s_start < Len(s_text)
       THEN LET r == SplitBody(s_text, s_size, s_overlap, s_start, s_chunks)
            IN  /\ s_start' = r.start
                /\ s_chunks' = r.chunks
                /\ s_pc' = IF r.brk THEN "done" ELSE "loop"
       ELSE /\ s_pc' = "done"
            /\ UNCHANGED <<s_start, s_chunks>>
    /\ UNCHANGED <<s_text, s_size, s_overlap>>
    /\ UNCHANGED <<fs, storeVars, mgrVars, pc, runVars, outVars, last, prev_hash, cut, runs,
                   faults>>

SplitNext == SplitCall \/ SplitIter

SplitSpec == SplitInit /\ [][SplitNext]_vars

----------------------------------------------------------------------------
(* Properties of the splitter.                                             *)

ValidSizes == s_size >= 1 /\ 0 <= s_overlap /\ s_overlap < s_size

\* c is t without its leading and trailing whitespace (t has other characters)
IsTrimOf(c, t) ==
    \E a, b \in 1..Len(t) :
        /\ a <= b
        /\ c = SubSeq(t, a, b)
        /\ t[a] \notin Whitespace
        /\ t[b] \notin Whitespace
        /\ \A i \in 1..Len(t) : (i < a \/ i > b) => t[i] \in Whitespace

AllWhitespace(t) == \A i \in 1..Len(t) : t[i] \in Whitespace

\* the characters of a text that are not whitespace, in order
NonWhitespace(t) == SelectSeq(t, LAMBDA ch : ch \notin Whitespace)

\* the chunks one after the other
RECURSIVE Concat(_)
Concat(chunks) ==
    IF chunks = <<>> THEN <<>> ELSE Head(chunks) \o Concat(Tail(chunks))

\* C7: for valid sizes every iteration that stays in the loop moves start forward
\* and keeps it before the end of the text, so the loop ends after at most
\* len(text) iterations; every step leaves the call at the loop test or returned;
\* and no chunk is longer than chunk_size.
C7_TerminatesBounded ==
    [][ValidSizes =>
          /\ (s_pc = "loop" /\ s_pc' = "loop") =>
                (s_start < s_start' /\ s_start' < Len(s_text))
          /\ s_pc' \in {"loop", "done"}
          /\ \A i \in 1..Len(s_chunks') : Len(s_chunks'[i]) <= s_size]_vars

\* C7 witness: a call with valid sizes returned several chunks, one of full size
C7_Witness ==
    /\ s_pc = "done"
    /\ ValidSizes
    /\ s_overlap > 0
    /\ Len(s_chunks) >= 3
    /\ \E i \in 1..Len(s_chunks) : Len(s_chunks[i]) = s_size

\* C8 (as amended): for a text shorter than chunk_size that has a character other
\* than whitespace the result is one chunk, the text without its leading and
\* trailing whitespace; for the empty text and for a text of whitespace only the
\* result is no chunk.
C8_ShortText ==
    (s_pc = "done" /\ Len(s_text) < s_size) =>
        IF AllWhitespace(s_text)
        THEN s_chunks = <<>>
        ELSE Len(s_chunks) = 1 /\ IsTrimOf(s_chunks[1], s_text)

\* C8 witness: a short text with whitespace at both ends gave its trimmed middle
C8_Witness ==
    /\ s_pc = "done"
    /\ Len(s_text) < s_size
    /\ Len(s_chunks) = 1
    /\ Len(s_chunks[1]) < Len(s_text)
    /\ s_text[Len(s_text)] \in Whitespace

\* C8 as stated: one chunk for every non-empty text shorter than chunk_size.
C8_AsStated ==
    (s_pc = "done" /\ Len(s_text) < s_size) =>
        IF s_text = <<>>
        THEN s_chunks = <<>>
        ELSE /\ Len(s_chunks) = 1
             /\ AllWhitespace(s_text) => s_chunks[1] = <<>>
             /\ ~AllWhitespace(s_text) => IsTrimOf(s_chunks[1], s_text)

\* C9: for valid sizes the chunks, one after the other and with whitespace
\* deleted, are the text with whitespace deleted.
C9_NoCharacterLost ==
    (s_pc = "done" /\ ValidSizes) =>
        NonWhitespace(Concat(s_chunks)) = NonWhitespace(s_text)

\* C9 witness: a text was cut into several chunks and whitespace at a cut was
\* dropped
C9_Witness ==
    /\ s_pc = "done"
    /\ ValidSizes
    /\ Len(s_chunks) >= 2
    /\ Len(Concat(s_chunks)) < Len(s_text)
    /\ NonWhitespace(s_text) # <<>>

\* paragraph break, line break, sentence terminator plus space, space
SemanticSeparators == << <<"\n", "\n">>, <<"\n">>, <<".", " ">>, <<" ">> >>

\* the 0-based positions at which sep lies wholly inside text[lo:hi]
Occurrences(text, sep, lo, hi) ==
    {p \in lo..(hi - Len(sep)) : SubSeq(text, p + 1, p + Len(sep)) = sep}

\* the split point C19 names for the iteration that starts at start
RuleSplit(text, start, chunk_size, overlap) ==
    LET end     == start + chunk_size
        lo      == Max(start, end - overlap)
        present == {k \in 1..Len(SemanticSeparators) :
                       Occurrences(text, SemanticSeparators[k], lo, end) # {}}
    IN  IF present = {} THEN end
        ELSE LET k   == CHOOSE k \in present : \A j \in present : k <= j
                 occ == Occurrences(text, SemanticSeparators[k], lo, end)
                 p   == CHOOSE p \in occ : \A q \in occ : q <= p
             IN  p + Len(SemanticSeparators[k])

\* C19: in an iteration whose candidate end lies before the end of the text, the
\* split point is the position just after the last occurrence, inside the window
\* [max(start, end - overlap), end), of the first separator in priority order
\* that occurs in the window, and end when none occurs: the chunk emitted is the
\* stripped text[start:split point], if not empty, and the next iteration starts
\* at the split point.
C19_SplitPoint ==
    [][(s_pc = "loop" /\ s_start + s_size < Len(s_text)) =>
          LET sp    == RuleSplit(s_text, s_start, s_size, s_overlap)
              chunk == strip(Slice(s_text, s_start, sp))
          IN  /\ s_start' = sp
              /\ s_chunks' = IF chunk # <<>> THEN Append(s_chunks, chunk) ELSE s_chunks
              /\ s_pc' = "loop"]_vars

\* C19 witness: the window of the first iteration held a line break followed by
\* a space, and the cut was made after the line break
C19_Witness ==
    /\ s_pc = "loop"
    /\ s_size = 3
    /\ s_overlap = 2
    /\ Len(s_text) >= 4
    /\ s_text[2] = "\n"
    /\ s_text[3] = " "
    /\ s_start = 2

====
